---- MODULE Spec2Model ----
(***************************************************************************)
(* A model of ftdi-eeprom.c: the command line is parsed with getopt_long,  *)
(* the bus:device identifier with parse_device_identifier (two strtol      *)
(* calls), then main walks a straight line of libusb / libftdi calls and   *)
(* returns at the first result it tests and finds bad.                     *)
(*                                                                         *)
(* Strings that are parsed (the identifier) are sequences of one-character *)
(* strings; strings that are only passed around (option values, descriptor *)
(* strings) are TLA+ strings.  Every library call's return value is chosen *)
(* by the environment from the values the library documents.               *)
(***************************************************************************)
EXTENDS Integers, Sequences, FiniteSets, TLC

VARIABLES
  argv,              \* the command line, argv[0] first (Seq of tokens)
  pc,                \* position of main
  optidx,            \* number of option elements getopt_long has returned
  manufacturer,      \* char* manufacturer (NULL or a string)
  product,           \* char* product
  serial,            \* char* serial
  verbose_mode,      \* static bool verbose_mode
  bus,               \* int bus
  device,            \* int device
  usb_devices,       \* the list libusb_get_device_list returned
  n_devices,         \* its return value
  usb_device,        \* index into usb_devices of the match, NULL if none
  ftdi,              \* state of struct ftdi_context
  descr,             \* the strings held by the opened device
  orig_manufacturer, \* char orig_manufacturer[128]
  orig_product,      \* char orig_product[128]
  orig_serial,       \* char orig_serial[128]
  ires,              \* int ires
  eeprom,            \* arguments ftdi_eeprom_initdefaults received
  written,           \* devices ftdi_write_eeprom was applied to
  out,               \* what was printed on stdout
  err,               \* what was printed on stderr
  exit_status,       \* the value main returned
  trace              \* the steps taken so far, each with its result

vars == <<argv, pc, optidx, manufacturer, product, serial, verbose_mode, bus,
          device, usb_devices, n_devices, usb_device, ftdi, descr,
          orig_manufacturer, orig_product, orig_serial, ires, eeprom, written,
          out, err, exit_status, trace>>

----------------------------------------------------------------------------
(* Bounds of the model *)

\* longest command line, argv[0] not counted
MaxArgs == 3
\* longest device list libusb_get_device_list returns
MaxDevs == 2
\* longest identifier explored exhaustively by SpecParse
MaxIdLen == 3

----------------------------------------------------------------------------
(* Values *)

NULL == "NULL"
Uninit == "uninit"
NoStatus == 0 - 1

EXIT_SUCCESS == 0
EXIT_FAILURE == 1

\* Seq(S) cut to length n
SeqsUpTo(S, n) == UNION {[1..k -> S] : k \in 0..n}

\* The identifiers given on the command lines of Spec.
Id12 == <<"1", ":", "2">>
Id21 == <<"2", ":", "1">>
IdAbc == <<"a", "b", "c">>
Id123 == <<"1", ":", "2", ":", "3">>
MainIds == {Id12, IdAbc}

\* Characters of the identifiers SpecParse explores.
IdChars == {"0", "1", "8", ":", "x", "a", "-", " "}
\* "001:010", the way lsusb prints bus 1, device 10, and "1:08"
IdLsusb == <<"0", "0", "1", ":", "0", "1", "0">>
Id108 == <<"1", ":", "0", "8">>
ParseIds ==
  SeqsUpTo(IdChars, MaxIdLen) \cup {Id12, Id21, Id123, IdAbc, IdLsusb, Id108}

\* Values given with -m, -p, -s and strings a device holds.
OptValues == {"A"}

\* What an opened device may hold: three different strings, or in every
\* field the very string an option can give.
Descriptors == {[manufacturer |-> "M", product |-> "P", serial |-> "S"],
                [manufacturer |-> "A", product |-> "A", serial |-> "A"]}

\* Bus numbers and device addresses of the enumerated devices.
DevNums == {1, 2}
Devices == [bus : DevNums, addr : DevNums]

\* One element of the command line after argv[0].  "?" is what getopt_long
\* returns for an unknown option or a missing option argument.
OptTokens == {<<f, v>> : f \in {"m", "p", "s"}, v \in OptValues}
                \cup {<<"v">>, <<"h">>, <<"?">>}
ArgTokens == {<<"arg", id>> : id \in MainIds}
Tokens == OptTokens \cup ArgTokens
Prog == <<"prog">>

IsOption(t) == t[1] \in {"m", "p", "s", "v", "h", "?"}
IsArg(t) == t[1] = "arg"

----------------------------------------------------------------------------
(* strtol(nptr, &endptr, 0) on the text of s that starts at index p.        *)
(* The result is the value and the index endptr points at; Len(s) + 1 is    *)
(* the terminating '\0'.                                                    *)

NUL == "NUL"
At(s, i) == IF i >= 1 /\ i <= Len(s) THEN s[i] ELSE NUL

DecChars == <<"0", "1", "2", "3", "4", "5", "6", "7", "8", "9">>
HexChars == DecChars \o <<"a", "b", "c", "d", "e", "f">>

\* The value of character c as a digit, or 99 when it is none.
DigitVal(c) ==
  IF \E k \in 1..Len(HexChars) : HexChars[k] = c
  THEN (CHOOSE k \in 1..Len(HexChars) : HexChars[k] = c) - 1
  ELSE 99

IsDigitIn(c, base) == DigitVal(c) < base

RECURSIVE SkipSpace(_, _)
SkipSpace(s, i) == IF At(s, i) = " " THEN SkipSpace(s, i + 1) ELSE i

\* The index of the first character at or after i that is no digit in base.
RECURSIVE DigitsEnd(_, _, _)
DigitsEnd(s, i, base) ==
  IF IsDigitIn(At(s, i), base) THEN DigitsEnd(s, i + 1, base) ELSE i

\* The value of the digits s[i..j-1], acc being the value read so far.
RECURSIVE DigitsValue(_, _, _, _, _)
DigitsValue(s, i, j, base, acc) ==
  IF i >= j THEN acc
  ELSE DigitsValue(s, i + 1, j, base, acc * base + DigitVal(s[i]))

strtol(s, p) ==
  LET i1 == SkipSpace(s, p)
      neg == At(s, i1) = "-"
      i2 == IF At(s, i1) \in {"-", "+"} THEN i1 + 1 ELSE i1
      hex == /\ At(s, i2) = "0"
             /\ At(s, i2 + 1) \in {"x", "X"}
             /\ IsDigitIn(At(s, i2 + 2), 16)
      base == IF hex THEN 16 ELSE IF At(s, i2) = "0" THEN 8 ELSE 10
      i3 == IF hex THEN i2 + 2 ELSE i2
      j == DigitsEnd(s, i3, base)
      v == DigitsValue(s, i3, j, base, 0)
  IN  IF j = i3 THEN [val |-> 0, end |-> p]
      ELSE [val |-> IF neg THEN 0 - v ELSE v, end |-> j]

\* parse_device_identifier: the returned bool and what *bus and *device hold
\* afterwards, b0 and d0 being what they held before.  The values of the
\* identifiers explored fit an int, so the cast (int) tmp changes nothing.
parse_device_identifier(b0, d0, identifier) ==
  LET r1 == strtol(identifier, 1)
      r2 == strtol(identifier, r1.end + 1)
  IN  IF At(identifier, r1.end) # ":"
      THEN [ok |-> FALSE, bus |-> b0, device |-> d0]
      ELSE IF At(identifier, r2.end) # NUL
      THEN [ok |-> FALSE, bus |-> r1.val, device |-> d0]
      ELSE [ok |-> TRUE, bus |-> r1.val, device |-> r2.val]

----------------------------------------------------------------------------
(* The command line as getopt_long sees it.  GNU getopt_long permutes argv *)
(* so that the options come first, in their order, and the non-options     *)
(* follow, in theirs; its fifth argument, &optind, is overwritten by the   *)
(* library's own store to optind when it returns.                          *)

Opts(a) == SelectSeq(Tail(a), IsOption)
Args(a) == SelectSeq(Tail(a), IsArg)
Permuted(a) == <<Prog>> \o Opts(a) \o Args(a)

argc == Len(argv)
\* optind once optidx option elements have been returned
optind == 1 + optidx
\* argv[i] of C, after the permutation
ArgvAt(i) == Permuted(argv)[i + 1]

\* print_verbose: the line is printed on stderr in verbose mode only
print_verbose(e, lines) == IF verbose_mode THEN e \o lines ELSE e

\* return from main
Return(status) == pc' = "exit" /\ exit_status' = status

optVars == <<manufacturer, product, serial, verbose_mode>>
idVars == <<bus, device>>
usbVars == <<usb_devices, n_devices, usb_device>>
origVars == <<orig_manufacturer, orig_product, orig_serial>>

\* main is entered with command line a
Start(a) ==
  /\ argv = a
  /\ pc = "getopt"
  /\ optidx = 0
  /\ manufacturer = NULL
  /\ product = NULL
  /\ serial = NULL
  /\ verbose_mode = FALSE
  /\ bus = 0 - 1
  /\ device = 0 - 1
  /\ usb_devices = <<>>
  /\ n_devices = 0
  /\ usb_device = 0
  /\ ftdi = [state |-> "none", dev |-> 0]
  /\ descr = Uninit
  /\ orig_manufacturer = Uninit
  /\ orig_product = Uninit
  /\ orig_serial = Uninit
  /\ ires = 0
  /\ eeprom = <<>>
  /\ written = <<>>
  /\ out = <<>>
  /\ err = <<>>
  /\ exit_status = NoStatus
  /\ trace = <<>>

Init == \E a \in SeqsUpTo(Tokens, MaxArgs) : Start(<<Prog>> \o a)

----------------------------------------------------------------------------
(* The getopt_long loop, one action per case of the switch *)

HasOpt(c) ==
  /\ pc = "getopt"
  /\ optidx < Len(Opts(argv))
  /\ Opts(argv)[optidx + 1][1] = c

OptArg == Opts(argv)[optidx + 1][2]

CaseM ==
  /\ HasOpt("m")
  /\ manufacturer' = OptArg
  /\ optidx' = optidx + 1
  /\ UNCHANGED <<argv, pc, product, serial, verbose_mode, idVars, usbVars,
                 ftdi, descr, origVars, ires, eeprom, written, out, err,
                 exit_status, trace>>

CaseP ==
  /\ HasOpt("p")
  /\ product' = OptArg
  /\ optidx' = optidx + 1
  /\ UNCHANGED <<argv, pc, manufacturer, serial, verbose_mode, idVars,
                 usbVars, ftdi, descr, origVars, ires, eeprom, written, out,
                 err, exit_status, trace>>

CaseS ==
  /\ HasOpt("s")
  /\ serial' = OptArg
  /\ optidx' = optidx + 1
  /\ UNCHANGED <<argv, pc, manufacturer, product, verbose_mode, idVars,
                 usbVars, ftdi, descr, origVars, ires, eeprom, written, out,
                 err, exit_status, trace>>

CaseV ==
  /\ HasOpt("v")
  /\ verbose_mode' = TRUE
  /\ optidx' = optidx + 1
  /\ UNCHANGED <<argv, pc, manufacturer, product, serial, idVars, usbVars,
                 ftdi, descr, origVars, ires, eeprom, written, out, err,
                 exit_status, trace>>

\* CaseH without its return: the help screen is printed and the loop goes on
CaseH_break ==
  /\ HasOpt("h")
  /\ out' = Append(out, "help")
  /\ optidx' = optidx + 1
  /\ UNCHANGED <<argv, pc, optVars, idVars, usbVars, ftdi, descr, origVars,
                 ires, eeprom, written, err, exit_status, trace>>

CaseH ==
  /\ HasOpt("h")
  /\ out' = Append(out, "help")
  /\ optidx' = optidx + 1
  /\ Return(EXIT_SUCCESS)
  /\ UNCHANGED <<argv, optVars, idVars, usbVars, ftdi, descr, origVars, ires,
                 eeprom, written, err, trace>>

\* '?': no case of the switch matches
CaseNone ==
  /\ HasOpt("?")
  /\ optidx' = optidx + 1
  /\ UNCHANGED <<argv, pc, optVars, idVars, usbVars, ftdi, descr, origVars,
                 ires, eeprom, written, out, err, exit_status, trace>>

\* getopt_long returns -1
GetoptEnd ==
  /\ pc = "getopt"
  /\ optidx = Len(Opts(argv))
  /\ pc' = "args"
  /\ UNCHANGED <<argv, optidx, optVars, idVars, usbVars, ftdi, descr,
                 origVars, ires, eeprom, written, out, err, exit_status,
                 trace>>

----------------------------------------------------------------------------
(* The positional argument *)

\* WrongArgCount with > for !=: only a missing argument is refused
WrongArgCount_missing == optind + 1 > argc

WrongArgCount == optind + 1 # argc

BadArgCount ==
  /\ pc = "args"
  /\ WrongArgCount
  /\ out' = Append(out, "help")
  /\ Return(EXIT_FAILURE)
  /\ UNCHANGED <<argv, optidx, optVars, idVars, usbVars, ftdi, descr,
                 origVars, ires, eeprom, written, err, trace>>

ParseId ==
  /\ pc = "args"
  /\ ~WrongArgCount
  /\ LET r == parse_device_identifier(bus, device, ArgvAt(optind)[2])
     IN  /\ bus' = r.bus
         /\ device' = r.device
         /\ trace' = Append(trace, <<"parse", IF r.ok THEN 1 ELSE 0>>)
         /\ IF ~r.ok
            THEN /\ err' = Append(err, "Unable to parse")
                 /\ Return(EXIT_FAILURE)
            ELSE /\ err' = print_verbose(err, <<"Using device">>)
                 /\ pc' = "libusb_init"
                 /\ UNCHANGED exit_status
  /\ UNCHANGED <<argv, optidx, optVars, usbVars, ftdi, descr, origVars, ires,
                 eeprom, written, out>>

----------------------------------------------------------------------------
(* Enumerating the USB devices and finding the one asked for *)

\* the tests main applies to a library call's return value
Failed_ne0(r) == r # 0
Failed_lt0(r) == r < 0

\* the return value of libusb_init is not looked at
LibusbInit ==
  /\ pc = "libusb_init"
  /\ \E r \in {0, 0 - 99} :
       trace' = Append(trace, <<"libusb_init", r>>)
  /\ pc' = "get_device_list"
  /\ UNCHANGED <<argv, optidx, optVars, idVars, usbVars, ftdi, descr,
                 origVars, ires, eeprom, written, out, err, exit_status>>

GetDeviceList ==
  /\ pc = "get_device_list"
  /\ \/ \E list \in SeqsUpTo(Devices, MaxDevs) :
          /\ usb_devices' = list
          /\ n_devices' = Len(list)
          /\ trace' = Append(trace, <<"get_device_list", Len(list)>>)
          /\ pc' = "find"
          /\ UNCHANGED <<err, exit_status>>
     \/ /\ n_devices' = 0 - 11
        /\ trace' = Append(trace, <<"get_device_list", 0 - 11>>)
        /\ err' = Append(err, "ERROR: Unable to list USB devices")
        /\ Return(EXIT_FAILURE)
        /\ UNCHANGED usb_devices
  /\ UNCHANGED <<argv, optidx, optVars, idVars, usb_device, ftdi, descr,
                 origVars, ires, eeprom, written, out>>

\* Match with || for &&: one of the two numbers is enough
Match_either(dev, b, d) == dev.bus = b \/ dev.addr = d

Match(dev, b, d) == dev.bus = b /\ dev.addr = d

\* the for loop from index i on: the index of the first match, 0 for NULL
RECURSIVE FindFrom(_, _, _, _, _)
FindFrom(devs, n, i, b, d) ==
  IF i > n THEN 0
  ELSE IF Match(devs[i], b, d) THEN i
  ELSE FindFrom(devs, n, i + 1, b, d)

FindDevice ==
  /\ pc = "find"
  /\ LET found == FindFrom(usb_devices, n_devices, 1, bus, device)
     IN  /\ usb_device' = found
         /\ trace' = Append(trace, <<"find", found>>)
         /\ IF found = 0
            THEN /\ err' = Append(err, "ERROR: Unable to find USB device")
                 /\ Return(EXIT_FAILURE)
            ELSE /\ pc' = "ftdi_init"
                 /\ UNCHANGED <<err, exit_status>>
  /\ UNCHANGED <<argv, optidx, optVars, idVars, usb_devices, n_devices, ftdi,
                 descr, origVars, ires, eeprom, written, out>>

----------------------------------------------------------------------------
(* Opening the device *)

FtdiInit ==
  /\ pc = "ftdi_init"
  /\ \E r \in {0, 0 - 1} :
       /\ ires' = r
       /\ trace' = Append(trace, <<"ftdi_init", r>>)
       /\ IF Failed_ne0(r)
          THEN /\ err' = Append(err, "ERROR: Unable to initialize libftdi")
               /\ Return(EXIT_FAILURE)
               /\ UNCHANGED ftdi
          ELSE /\ ftdi' = [state |-> "init", dev |-> 0]
               /\ pc' = "usb_open"
               /\ UNCHANGED <<err, exit_status>>
  /\ UNCHANGED <<argv, optidx, optVars, idVars, usbVars, descr, origVars,
                 eeprom, written, out>>

\* a device that opens holds three descriptor strings
UsbOpen ==
  /\ pc = "usb_open"
  /\ \E r \in {0, 0 - 8} :
       /\ ires' = r
       /\ trace' = Append(trace, <<"ftdi_usb_open_dev", r>>)
       /\ IF Failed_ne0(r)
          THEN /\ err' = err \o <<"ERROR: Unable to open device",
                                  "Perhaps you don't have sufficient permissions">>
               /\ Return(EXIT_FAILURE)
               /\ UNCHANGED <<ftdi, descr>>
          ELSE /\ ftdi' = [state |-> "open", dev |-> usb_device]
               /\ descr' \in Descriptors
               /\ pc' = "get_descriptor"
               /\ UNCHANGED <<err, exit_status>>
  /\ UNCHANGED <<argv, optidx, optVars, idVars, usbVars, origVars, eeprom,
                 written, out>>

GetDescriptor ==
  /\ pc = "get_descriptor"
  /\ \E r \in {0, 0 - 1} :
       /\ ires' = r
       /\ trace' = Append(trace, <<"get_device_descriptor", r>>)
       /\ IF Failed_lt0(r)
          THEN /\ err' = Append(err, "ERROR: Unable to retrieve device descriptor")
               /\ Return(EXIT_FAILURE)
          ELSE /\ pc' = "read_manufacturer"
               /\ UNCHANGED <<err, exit_status>>
  /\ UNCHANGED <<argv, optidx, optVars, idVars, usbVars, ftdi, descr,
                 origVars, eeprom, written, out>>

----------------------------------------------------------------------------
(* Reading the descriptor strings the device holds *)

\* Default without its test: the string read always wins
Default_orig(opt, orig) == orig

\* if (opt == NULL) opt = orig;
Default(opt, orig) == IF opt = NULL THEN orig ELSE opt

\* libusb_get_string_descriptor_ascii returns the length of the string read
StrLen == 1

\* ReadManufacturer reading only when needed: nothing is read for an
\* overridden field
ReadManufacturer_skip ==
  /\ pc = "read_manufacturer"
  /\ IF manufacturer # NULL
     THEN /\ pc' = "read_product"
          /\ UNCHANGED <<ires, trace, err, exit_status, orig_manufacturer,
                         manufacturer>>
     ELSE \E r \in {StrLen, 0 - 1} :
       /\ ires' = r
       /\ trace' = Append(trace, <<"read_manufacturer", r>>)
       /\ IF Failed_lt0(r)
          THEN /\ err' = Append(err, "ERROR: Unable to retrieve manufacturer")
               /\ Return(EXIT_FAILURE)
               /\ UNCHANGED <<orig_manufacturer, manufacturer>>
          ELSE /\ orig_manufacturer' = descr.manufacturer
               /\ err' = print_verbose(err, <<"Old manufacturer">>)
               /\ manufacturer' = Default(manufacturer, orig_manufacturer')
               /\ pc' = "read_product"
               /\ UNCHANGED exit_status
  /\ UNCHANGED <<argv, optidx, product, serial, verbose_mode, idVars, usbVars,
                 ftdi, descr, orig_product, orig_serial, eeprom, written, out>>

ReadManufacturer ==
  /\ pc = "read_manufacturer"
  /\ \E r \in {StrLen, 0 - 1} :
       /\ ires' = r
       /\ trace' = Append(trace, <<"read_manufacturer", r>>)
       /\ IF Failed_lt0(r)
          THEN /\ err' = Append(err, "ERROR: Unable to retrieve manufacturer")
               /\ Return(EXIT_FAILURE)
               /\ UNCHANGED <<orig_manufacturer, manufacturer>>
          ELSE /\ orig_manufacturer' = descr.manufacturer
               /\ err' = print_verbose(err, <<"Old manufacturer">>)
               /\ manufacturer' = Default(manufacturer, orig_manufacturer')
               /\ pc' = "read_product"
               /\ UNCHANGED exit_status
  /\ UNCHANGED <<argv, optidx, product, serial, verbose_mode, idVars, usbVars,
                 ftdi, descr, orig_product, orig_serial, eeprom, written, out>>

ReadProduct ==
  /\ pc = "read_product"
  /\ \E r \in {StrLen, 0 - 1} :
       /\ ires' = r
       /\ trace' = Append(trace, <<"read_product", r>>)
       /\ IF Failed_lt0(r)
          THEN /\ err' = Append(err, "ERROR: Unable to retrieve product")
               /\ Return(EXIT_FAILURE)
               /\ UNCHANGED <<orig_product, product>>
          ELSE /\ orig_product' = descr.product
               /\ err' = print_verbose(err, <<"Old product">>)
               /\ product' = Default(product, orig_product')
               /\ pc' = "read_serial"
               /\ UNCHANGED exit_status
  /\ UNCHANGED <<argv, optidx, manufacturer, serial, verbose_mode, idVars,
                 usbVars, ftdi, descr, orig_manufacturer, orig_serial, eeprom,
                 written, out>>

ReadSerial ==
  /\ pc = "read_serial"
  /\ \E r \in {StrLen, 0 - 1} :
       /\ ires' = r
       /\ trace' = Append(trace, <<"read_serial", r>>)
       /\ IF Failed_lt0(r)
          THEN /\ err' = Append(err, "ERROR: Unable to retrieve serial")
               /\ Return(EXIT_FAILURE)
               /\ UNCHANGED <<orig_serial, serial>>
          ELSE /\ orig_serial' = descr.serial
               /\ err' = print_verbose(err, <<"Old serial">>)
               /\ serial' = Default(serial, orig_serial')
               /\ pc' = "initdefaults"
               /\ UNCHANGED exit_status
  /\ UNCHANGED <<argv, optidx, manufacturer, product, verbose_mode, idVars,
                 usbVars, ftdi, descr, orig_manufacturer, orig_product, eeprom,
                 written, out>>

----------------------------------------------------------------------------
(* Defaulting, building and writing the EEPROM *)

InitDefaults ==
  /\ pc = "initdefaults"
  /\ eeprom' = Append(eeprom, [manufacturer |-> manufacturer,
                               product |-> product, serial |-> serial])
  /\ \E r \in {0, 0 - 1} :
       /\ ires' = r
       /\ trace' = Append(trace, <<"ftdi_eeprom_initdefaults", r>>)
       /\ LET e == print_verbose(err, <<"New manufacturer", "New product",
                                        "New serial">>)
          IN  IF Failed_lt0(r)
              THEN /\ err' = Append(e, "Unable to set EEPROM defaults")
                   /\ Return(EXIT_FAILURE)
              ELSE /\ err' = e
                   /\ pc' = "build"
                   /\ UNCHANGED exit_status
  /\ UNCHANGED <<argv, optidx, optVars, idVars, usbVars, ftdi, descr,
                 origVars, written, out>>

\* ftdi_eeprom_build returns the size of the free user area
BuildSize == 1

\* Build without its return: a failed build is reported and main goes on
Build_goes_on ==
  /\ pc = "build"
  /\ \E r \in {BuildSize, 0 - 1} :
       /\ ires' = r
       /\ trace' = Append(trace, <<"ftdi_eeprom_build", r>>)
       /\ err' = IF Failed_lt0(r) THEN Append(err, "Unable to build EEPROM")
                 ELSE err
       /\ pc' = "write"
       /\ UNCHANGED exit_status
  /\ UNCHANGED <<argv, optidx, optVars, idVars, usbVars, ftdi, descr,
                 origVars, eeprom, written, out>>

Build ==
  /\ pc = "build"
  /\ \E r \in {BuildSize, 0 - 1} :
       /\ ires' = r
       /\ trace' = Append(trace, <<"ftdi_eeprom_build", r>>)
       /\ IF Failed_lt0(r)
          THEN /\ err' = Append(err, "Unable to build EEPROM")
               /\ Return(EXIT_FAILURE)
          ELSE /\ pc' = "write"
               /\ UNCHANGED <<err, exit_status>>
  /\ UNCHANGED <<argv, optidx, optVars, idVars, usbVars, ftdi, descr,
                 origVars, eeprom, written, out>>

\* written: the device of every ftdi_write_eeprom call
Write ==
  /\ pc = "write"
  /\ written' = Append(written, ftdi.dev)
  /\ \E r \in {0, 0 - 1} :
       /\ ires' = r
       /\ trace' = Append(trace, <<"ftdi_write_eeprom", r>>)
       /\ IF Failed_lt0(r)
          THEN /\ err' = Append(err, "Unable to write EEPROM")
               /\ Return(EXIT_FAILURE)
          ELSE /\ pc' = "deinit"
               /\ UNCHANGED <<err, exit_status>>
  /\ UNCHANGED <<argv, optidx, optVars, idVars, usbVars, ftdi, descr,
                 origVars, eeprom, out>>

Deinit ==
  /\ pc = "deinit"
  /\ ftdi' = [state |-> "closed", dev |-> ftdi.dev]
  /\ trace' = Append(trace, <<"ftdi_deinit", 0>>)
  /\ Return(EXIT_SUCCESS)
  /\ UNCHANGED <<argv, optidx, optVars, idVars, usbVars, descr, origVars,
                 ires, eeprom, written, out, err>>

----------------------------------------------------------------------------
(* The program *)

Next ==
  \/ CaseM \/ CaseP \/ CaseS \/ CaseV \/ CaseH \/ CaseNone \/ GetoptEnd
  \/ BadArgCount \/ ParseId
  \/ LibusbInit \/ GetDeviceList \/ FindDevice
  \/ FtdiInit \/ UsbOpen \/ GetDescriptor
  \/ ReadManufacturer \/ ReadProduct \/ ReadSerial
  \/ InitDefaults \/ Build \/ Write \/ Deinit

Spec == Init /\ [][Next]_vars

\* parse_device_identifier alone, on every identifier of ParseIds
InitParse == \E id \in ParseIds : Start(<<Prog, <<"arg", id>>>>)

NextParse == GetoptEnd \/ ParseId

SpecParse == InitParse /\ [][NextParse]_vars

----------------------------------------------------------------------------
(* What the properties speak of *)

MinOf(S) == CHOOSE x \in S : \A y \in S : x <= y
MaxOf(S) == CHOOSE x \in S : \A y \in S : y <= x

\* -h or --help is on the command line
HelpGiven == \E i \in 2..Len(argv) : argv[i][1] = "h"

\* the positional arguments of the command line
Positionals == SelectSeq(argv, LAMBDA t : t[1] = "arg")

\* the value given with option f (the last one when it is repeated), or NULL
Given(f) ==
  LET I == {i \in 2..Len(argv) : argv[i][1] = f}
  IN  IF I = {} THEN NULL ELSE argv[MaxOf(I)][2]

\* a step named n is in the trace
Called(n) == \E i \in 1..Len(trace) : trace[i][1] = n

\* whether a step did what it was asked, as its library documents it
StepOk(e) ==
  CASE e[1] = "parse" -> e[2] = 1
    [] e[1] = "find" -> e[2] # 0
    [] e[1] \in {"ftdi_init", "ftdi_usb_open_dev"} -> e[2] = 0
    [] OTHER -> e[2] >= 0

Succeeded(n) == \E i \in 1..Len(trace) : trace[i][1] = n /\ StepOk(trace[i])
FailedStep(n) == \E i \in 1..Len(trace) : trace[i][1] = n /\ ~StepOk(trace[i])

LibraryCalls ==
  {"libusb_init", "get_device_list", "ftdi_init", "ftdi_usb_open_dev",
   "get_device_descriptor", "read_manufacturer", "read_product",
   "read_serial", "ftdi_eeprom_initdefaults", "ftdi_eeprom_build",
   "ftdi_write_eeprom", "ftdi_deinit"}

\* the steps of the program in the order the specification lists them
Order ==
  <<"parse", "get_device_list", "find", "ftdi_init", "ftdi_usb_open_dev",
    "get_device_descriptor", "read_manufacturer", "read_product",
    "read_serial", "ftdi_eeprom_initdefaults", "ftdi_eeprom_build",
    "ftdi_write_eeprom", "ftdi_deinit">>

Listed == SelectSeq(trace, LAMBDA e : e[1] # "libusb_init")

----------------------------------------------------------------------------
(* C1: each of manufacturer, product and serial that                       *)
(* ftdi_eeprom_initdefaults receives is the value given with -m, -p, -s    *)
(* when that option was given, and otherwise the string the device holds   *)
(* for that field.                                                         *)
C1_FieldsPreserved ==
  \A k \in 1..Len(eeprom) :
    /\ eeprom[k].manufacturer =
         IF Given("m") # NULL THEN Given("m") ELSE descr.manufacturer
    /\ eeprom[k].product =
         IF Given("p") # NULL THEN Given("p") ELSE descr.product
    /\ eeprom[k].serial =
         IF Given("s") # NULL THEN Given("s") ELSE descr.serial

\* -m overrides a manufacturer that differs, product and serial are kept
C1_Witness ==
  /\ Len(eeprom) = 1
  /\ Given("m") # NULL /\ Given("p") = NULL /\ Given("s") = NULL
  /\ descr.manufacturer # Given("m")
  /\ eeprom[1] = [manufacturer |-> Given("m"), product |-> descr.product,
                  serial |-> descr.serial]

(* C2: without -h and with exactly one positional argument, main returns 0 *)
(* if and only if the identifier parsed, a device matched and every        *)
(* library call up to ftdi_write_eeprom succeeded; otherwise it returns 1. *)
C2_ExitStatus ==
  (pc = "exit" /\ ~HelpGiven /\ Len(Positionals) = 1) =>
    /\ exit_status \in {EXIT_SUCCESS, EXIT_FAILURE}
    /\ exit_status = EXIT_SUCCESS <=>
         /\ Succeeded("parse")
         /\ Succeeded("find")
         /\ \A n \in LibraryCalls \ {"ftdi_deinit"} : Succeeded(n)

(* C3: a step that fails is the last step: an error is on stderr, main has *)
(* returned EXIT_FAILURE, no library call follows it and                   *)
(* ftdi_write_eeprom is never called.                                      *)
C3_StopAtFirstFailure ==
  \A i \in 1..Len(trace) :
    ~StepOk(trace[i]) =>
      /\ i = Len(trace)
      /\ pc = "exit"
      /\ exit_status = EXIT_FAILURE
      /\ err # <<>>
      /\ (trace[i][1] # "ftdi_write_eeprom" => ~Called("ftdi_write_eeprom"))

\* an integer as it is written: an optional sign and one decimal digit or more
IsInteger(t) ==
  LET d == IF t # <<>> /\ t[1] \in {"-", "+"} THEN Tail(t) ELSE t
  IN  /\ d # <<>>
      /\ \A i \in 1..Len(d) : IsDigitIn(d[i], 10)

IntegerValue(t) ==
  LET d == IF t[1] \in {"-", "+"} THEN Tail(t) ELSE t
      v == DigitsValue(d, 1, Len(d) + 1, 10, 0)
  IN  IF t[1] = "-" THEN 0 - v ELSE v

Colons(id) == {k \in 1..Len(id) : id[k] = ":"}
BusPart(id) == SubSeq(id, 1, MinOf(Colons(id)) - 1)
DevicePart(id) == SubSeq(id, MinOf(Colons(id)) + 1, Len(id))

\* <integer>:<integer>
WellFormed(id) ==
  /\ Colons(id) # {}
  /\ IsInteger(BusPart(id))
  /\ IsInteger(DevicePart(id))

(* C4: parse_device_identifier accepts an identifier if and only if it is  *)
(* <integer>:<integer>, each integer with at least one digit and nothing   *)
(* after the second; bus and device are then the two integers written.     *)
C4_ParseAccepts ==
  (Called("parse") /\ Len(Positionals) = 1) =>
    LET id == Positionals[1][2]
    IN  /\ Succeeded("parse") <=> WellFormed(id)
        /\ Succeeded("parse") =>
             /\ bus = IntegerValue(BusPart(id))
             /\ device = IntegerValue(DevicePart(id))

(* C5: without -h, a command line whose number of positional arguments is  *)
(* not one makes main return EXIT_FAILURE with no identifier parsed and no *)
(* library call made.                                                      *)
C5_ArgCount ==
  (~HelpGiven /\ Len(Positionals) # 1) =>
    /\ trace = <<>>
    /\ pc \in {"getopt", "args", "exit"}
    /\ pc = "exit" => exit_status = EXIT_FAILURE

\* two positional arguments, the first of them a good identifier
C5_Witness ==
  /\ ~HelpGiven
  /\ Len(Positionals) = 2
  /\ Positionals[1][2] = Id12
  /\ pc = "exit"
  /\ exit_status = EXIT_FAILURE

(* C6: with -h on the command line main prints the help screen and returns *)
(* EXIT_SUCCESS; nothing is enumerated, opened or written, whatever else   *)
(* the command line holds.                                                 *)
C6_HelpOnly ==
  HelpGiven =>
    /\ trace = <<>>
    /\ ftdi.state = "none"
    /\ written = <<>>
    /\ pc \in {"getopt", "exit"}
    /\ pc = "exit" => (exit_status = EXIT_SUCCESS /\ out = <<"help">>)

\* -h after another option, with a good identifier on the command line
C6_Witness ==
  /\ HelpGiven
  /\ Given("m") # NULL
  /\ Len(Positionals) = 1
  /\ Positionals[1][2] = Id12
  /\ pc = "exit"
  /\ exit_status = EXIT_SUCCESS

(* C7: when ftdi_init succeeded, ftdi_deinit has been called by the time   *)
(* main returns, whatever it returns.                                      *)
C7_HandleClosed ==
  (pc = "exit" /\ Succeeded("ftdi_init")) => Called("ftdi_deinit")

(* C8: the steps run in the listed order, each at most once and only after *)
(* every earlier one succeeded; ftdi_write_eeprom is called at most once,  *)
(* on one device, and only after initdefaults and build succeeded.         *)
C8_LinearSequence ==
  /\ LET L == Listed
     IN  /\ Len(L) <= Len(Order)
         /\ \A i \in 1..Len(L) :
              /\ L[i][1] = Order[i]
              /\ i < Len(L) => StepOk(L[i])
  /\ Len(written) <= 1
  /\ Called("ftdi_write_eeprom") =>
       /\ Succeeded("ftdi_eeprom_initdefaults")
       /\ Succeeded("ftdi_eeprom_build")

\* a whole run, from the identifier to ftdi_deinit
C8_Witness ==
  /\ pc = "exit"
  /\ exit_status = EXIT_SUCCESS
  /\ Len(Listed) = Len(Order)
  /\ Len(written) = 1

\* the enumerated devices whose bus number and address are those parsed
Matching ==
  {i \in 1..Len(usb_devices) :
     usb_devices[i].bus = bus /\ usb_devices[i].addr = device}

(* C9: the device opened is the first of the list whose bus number and     *)
(* address both equal the parsed ones; when none matches both, main        *)
(* returns EXIT_FAILURE before ftdi_init or ftdi_usb_open_dev is called.   *)
C9_FirstMatch ==
  Called("find") =>
    IF Matching = {}
    THEN /\ pc = "exit"
         /\ exit_status = EXIT_FAILURE
         /\ ~Called("ftdi_init")
         /\ ~Called("ftdi_usb_open_dev")
    ELSE /\ usb_device = MinOf(Matching)
         /\ ftdi.state \in {"open", "closed"} => ftdi.dev = MinOf(Matching)

\* the first device has the bus number only, the second has both
C9_Witness ==
  /\ ftdi.state = "open"
  /\ Len(usb_devices) >= 2
  /\ usb_devices[1].bus = bus
  /\ Matching # {}
  /\ ftdi.dev = 2

\* the step that reads the field option f overrides (it is named as the
\* value of pc before it), and the step before it
ReadStep == [m |-> "read_manufacturer", p |-> "read_product",
             s |-> "read_serial"]
ReadAfter == [m |-> "get_device_descriptor", p |-> "read_manufacturer",
              s |-> "read_product"]

(* C10: each of the three strings is read once the step before it          *)
(* succeeded, whatever options were given, and a read that fails makes     *)
(* main return EXIT_FAILURE with nothing written, also for a field that an *)
(* option overrides.                                                       *)
C10_ReadsAlways ==
  \A f \in {"m", "p", "s"} :
    /\ Succeeded(ReadAfter[f]) => (pc = ReadStep[f] \/ Called(ReadStep[f]))
    /\ FailedStep(ReadStep[f]) =>
         /\ pc = "exit"
         /\ exit_status = EXIT_FAILURE
         /\ eeprom = <<>>
         /\ ~Called("ftdi_write_eeprom")

\* the manufacturer is overridden and reading it fails
C10_Witness ==
  /\ Given("m") # NULL
  /\ FailedStep("read_manufacturer")
  /\ pc = "exit"
  /\ exit_status = EXIT_FAILURE

====
